---- MODULE Spec2Model ----
(***************************************************************************)
(* State-machine model of the HR front end of AI-Burnout-Agent:            *)
(*   - Dashboard  (agent-frontend/src/app/hr/dashboard/dashboard.ts)       *)
(*   - Reviews    (reviews.ts, src/unnamed/part_000)                       *)
(*   - ReviewModal (review-modal.ts, src/unnamed/part_001)                 *)
(* Every HTTP call is a request in flight; its subscribe callbacks (next,  *)
(* error) are separate actions that run when the response is delivered, in *)
(* any order (single-threaded event loop, responses are not ordered).      *)
(* The two controllers share no state; each has its own specification.     *)
(***************************************************************************)
EXTENDS Integers, Sequences, FiniteSets, TLC

\* ------------------------------------------------------------------------
\* Values
\* ------------------------------------------------------------------------

\* TypeScript null (filter fields are string | null).
NULL == "<null>"

\* A query parameter that is not part of the request URL.
Absent == "<absent>"

\* Mutant of Truthy: only null is tested, "" passes.
Truthy_NullOnly(v) == v # NULL

\* JavaScript truthiness of a string | null value: null and "" are falsy.
Truthy(v) == v # NULL /\ v # ""

\* encodeURIComponent on the strings the model uses: letters are kept,
\* '&' and ' ' are percent-encoded.
EncodeURIComponent(s) ==
    CASE s = "R&D" -> "R%26D"
      [] OTHER     -> s

\* ------------------------------------------------------------------------
\* Bounds
\* ------------------------------------------------------------------------

\* Number of user operations (page events, filter changes, clearFilters)
\* the dashboard model follows after ngOnInit.
MaxDashOps == 2

\* ------------------------------------------------------------------------
\* Dashboard: program constants
\* ------------------------------------------------------------------------

InitialPageSize == 10

PageSizeOptions == {5, 10, 25, 50}

Statuses == {"CRITICAL", "HIGH", "MEDIUM", "NORMAL"}

Trends == {"increasing", "stable", "decreasing"}

\* Backend stub for GET /departments: the department names it returns.
DepartmentNames == {"Engineering", "R&D"}

\* Backend stub for GET /dashboard: the total of the result set a query
\* selects. The unfiltered set has 40 employees, one filter narrows it to 6,
\* two or more filters select nothing.
DashTotal(q) ==
    LET k == Cardinality({f \in {"department", "status", "trend"} : q[f] # Absent})
    IN  CASE k = 0 -> 40
          [] k = 1 -> 6
          [] OTHER -> 0

VARIABLES
    \* Dashboard fields
    dashboardData,      \* signal<any>: NULL or the last response applied
    isLoaded,
    pageSize,
    pageIndex,
    totalItems,
    filterDepartment,
    filterStatus,
    filterTrend,
    departments,        \* set of names offered by the department filter
    paginatorPageIndex, \* MatPaginator.pageIndex of the dashboard view
    \* Dashboard requests in flight
    dashInited,         \* ngOnInit has run
    deptInFlight,       \* GET /departments is outstanding
    dashReqs,           \* GET /dashboard requests outstanding: [n, q]
    \* Dashboard history (not read by the program)
    dashSeq,            \* number of GET /dashboard issued so far
    dashOps,            \* number of user operations so far
    dashLast,           \* the last user operation and the request it issued
    dashApplied,        \* issue number of the fetch whose result is published
    dashMaxApplied,     \* highest issue number of any result applied so far
    dashResp            \* the last GET /dashboard callback run: next or error

dashVars == <<dashboardData, isLoaded, pageSize, pageIndex, totalItems,
              filterDepartment, filterStatus, filterTrend, departments,
              paginatorPageIndex, dashInited, deptInFlight, dashReqs,
              dashSeq, dashOps, dashLast, dashApplied, dashMaxApplied,
              dashResp>>

VARIABLES
    \* Reviews fields
    dataSource,         \* MatTableDataSource.data: the pending reviews published
    revIsLoading,       \* Reviews.isLoading
    revPageIndex,       \* paginator.pageIndex of the pending-review table
    revPageLength,      \* paginator.length of the pending-review table
    modals,             \* open ReviewModal dialogs
    \* Reviews requests in flight
    revInited,          \* ngOnInit / ngAfterViewInit have run
    pendReqs,           \* GET /reviews/pending outstanding
    detailReqs,         \* GET /reviews/{id} outstanding
    postReqs,           \* POST /reviews/{id}/submit outstanding
    \* Backend
    serverPending,      \* ids of the reviews the backend holds as pending
    \* Reviews history (not read by the program)
    revClicks,          \* number of reviewPrediction calls so far
    getsIssued,         \* number of GET /reviews/pending issued so far
    submittedOk,        \* ids whose POST success has been delivered
    postLog,            \* every POST issued, in order
    histLog,            \* every history fetch issued
    verdicts,           \* every valid verdict confirmed in a modal
    outcome,            \* per attempt: what its requests came to
    revApplied,         \* the GET /reviews/pending whose result is published
    revLast             \* the last handler that ran

revVars == <<dataSource, revIsLoading, revPageIndex, revPageLength, modals,
             revInited, pendReqs, detailReqs, postReqs, serverPending,
             revClicks, getsIssued, submittedOk, postLog, histLog, verdicts,
             outcome, revApplied, revLast>>

VARIABLES
    \* PredictionTable and the status column of the pending-review table
    rawItem,            \* one record of the backend payload to be displayed
    tableDataSource,    \* PredictionTable.dataSource
    queueStatusClass    \* class the pending-review table computed for the row

tblVars == <<rawItem, tableDataSource, queueStatusClass>>

VARIABLES
    \* EmployeeDailyLogs fields
    employees,          \* signal<Employee[]>: ids offered by the employee select
    selectedEmployeeId, \* number | null
    logData,            \* dataSource.data: the page of logs displayed
    totalLogs,
    logIsLoaded,        \* EmployeeDailyLogs.isLoaded
    logIsLoading,       \* EmployeeDailyLogs.isLoading
    logHasPaginator,    \* the @ViewChild(MatPaginator) query has resolved
    logPageIndex,       \* paginator.pageIndex of the log table
    \* EmployeeDailyLogs requests in flight
    logInited,          \* ngOnInit has run
    empInFlight,        \* GET /employees is outstanding
    logReqs,            \* GET /daily-logs/employee/{id} outstanding: [n, q]
    \* EmployeeDailyLogs history (not read by the program)
    logSeq,             \* number of log requests issued so far
    logOps,             \* number of user operations so far
    logLast,            \* the last user operation and what it issued
    logLastReq,         \* the last log request issued
    logFailed           \* some log request has failed

logVars == <<employees, selectedEmployeeId, logData, totalLogs, logIsLoaded,
             logIsLoading, logHasPaginator, logPageIndex, logInited,
             empInFlight, logReqs, logSeq, logOps, logLast, logLastReq,
             logFailed>>

VARIABLES
    \* DailyLogsEntryComponent fields
    batchSize,
    entryData,          \* signal<DailyLogResponse[] | null>: logs generated
    entryIsLoading,     \* DailyLogsEntryComponent.isLoading
    snackBar,           \* the message of the snack bar opened last
    \* DailyLogsEntryComponent requests in flight
    entryReqs,          \* POSTs outstanding: [n, kind, batch_size]
    \* DailyLogsEntryComponent history (not read by the program)
    entrySeq            \* number of POSTs issued so far

entryVars == <<batchSize, entryData, entryIsLoading, snackBar, entryReqs,
               entrySeq>>

vars == <<dashVars, revVars, tblVars, logVars, entryVars>>

\* ------------------------------------------------------------------------
\* Dashboard: pure parts of loadDashboardData
\* ------------------------------------------------------------------------

\* Mutant of PageOf: the 0-based index is sent as the page number.
PageOf_ZeroBased(idx) == idx

\* const page = this.pageIndex + 1
PageOf(idx) == idx + 1

\* if (this.filterX) params += `&x=${encodeURIComponent(this.filterX)}`
FilterParam(v) == IF Truthy(v) THEN EncodeURIComponent(v) ELSE Absent

\* The query string of the request, as a record of its parameters.
BuildParams(idx, size, dep, st, tr) ==
    [page       |-> PageOf(idx),
     page_size  |-> size,
     department |-> FilterParam(dep),
     status     |-> FilterParam(st),
     trend      |-> FilterParam(tr)]

\* The response body of GET /dashboard for query q.
DashResponse(q) == [query |-> q, total |-> DashTotal(q)]

\* Mutant of FilterChangePageIndex: the page index is not reset.
FilterChangePageIndex_Keep(idx) == idx

\* pageIndex after onFilterChange: this.pageIndex = 0
FilterChangePageIndex(idx) == 0

\* pageIndex after onPageChange: this.pageIndex = event.pageIndex
PageChangePageIndex(ev, idx) == ev.pageIndex

\* ------------------------------------------------------------------------
\* Dashboard: the paginator's page events
\* ------------------------------------------------------------------------

CeilDiv(a, b) == (a + b - 1) \div b

\* Index of the last page of a paginator of `len` items.
LastPageIndex(len, size) == IF len = 0 THEN 0 ELSE CeilDiv(len, size) - 1

\* The PageEvents MatPaginator can emit from its state: first / previous /
\* next / last page with the page size kept, or a new page size with the
\* page index that keeps the first displayed item on the page
\* (floor(pageIndex * oldSize / newSize)).
PageEvents ==
    LET last == LastPageIndex(totalItems, pageSize)
        nav  == {p \in {0, paginatorPageIndex - 1, paginatorPageIndex + 1, last} :
                    p >= 0 /\ p <= last /\ p # paginatorPageIndex}
    IN  {[pageIndex |-> p, pageSize |-> pageSize] : p \in nav}
        \cup
        {[pageIndex |-> (paginatorPageIndex * pageSize) \div s, pageSize |-> s] :
            s \in PageSizeOptions \ {pageSize}}

\* ------------------------------------------------------------------------
\* Dashboard: initial state
\* ------------------------------------------------------------------------

NoOp == [op |-> "none", prevIndex |-> 0, prevSize |-> 0,
         req |-> BuildParams(0, 0, NULL, NULL, NULL)]

DashInit ==
    /\ dashboardData = NULL
    /\ isLoaded = FALSE
    /\ pageSize = InitialPageSize
    /\ pageIndex = 0
    /\ totalItems = 0
    /\ filterDepartment = NULL
    /\ filterStatus = NULL
    /\ filterTrend = NULL
    /\ departments = {}
    /\ paginatorPageIndex = 0
    /\ dashInited = FALSE
    /\ deptInFlight = FALSE
    /\ dashReqs = {}
    /\ dashSeq = 0
    /\ dashOps = 0
    /\ dashLast = NoOp
    /\ dashApplied = 0
    /\ dashMaxApplied = 0
    /\ dashResp = "none"

\* ------------------------------------------------------------------------
\* Dashboard: operations
\* ------------------------------------------------------------------------

\* loadDashboardData(): builds the request from the (new) query state and
\* sends it; the callbacks run later, in DashboardNext / DashboardError.
LoadDashboardData(op, idx, size, dep, st, tr) ==
    LET q == BuildParams(idx, size, dep, st, tr)
    IN  /\ dashReqs' = dashReqs \cup {[n |-> dashSeq + 1, q |-> q]}
        /\ dashSeq' = dashSeq + 1
        /\ dashLast' = [op |-> op, prevIndex |-> pageIndex,
                        prevSize |-> pageSize, req |-> q]

\* ngOnInit(): loadDepartments(); loadDashboardData(). The router activates
\* one page component at a time: the dashboard is created only if the
\* review queue is not the page shown.
DashNgOnInit ==
    /\ UNCHANGED <<revVars, tblVars, logVars, entryVars>>
    /\ ~dashInited
    /\ ~revInited
    /\ dashInited' = TRUE
    /\ deptInFlight' = TRUE
    /\ LoadDashboardData("init", pageIndex, pageSize,
                         filterDepartment, filterStatus, filterTrend)
    /\ UNCHANGED <<dashboardData, isLoaded, pageSize, pageIndex, totalItems,
                   filterDepartment, filterStatus, filterTrend, departments,
                   paginatorPageIndex, dashOps, dashApplied, dashMaxApplied,
                   dashResp>>

\* loadDepartments() next: this.departments = data.map(d => d.name)
DepartmentsNext ==
    /\ UNCHANGED <<revVars, tblVars, logVars, entryVars>>
    /\ deptInFlight
    /\ deptInFlight' = FALSE
    /\ departments' = DepartmentNames
    /\ UNCHANGED <<dashboardData, isLoaded, pageSize, pageIndex, totalItems,
                   filterDepartment, filterStatus, filterTrend,
                   paginatorPageIndex, dashInited, dashReqs, dashSeq, dashOps,
                   dashLast, dashApplied, dashMaxApplied, dashResp>>

\* loadDepartments() error: this.departments = []
DepartmentsError ==
    /\ UNCHANGED <<revVars, tblVars, logVars, entryVars>>
    /\ deptInFlight
    /\ deptInFlight' = FALSE
    /\ departments' = {}
    /\ UNCHANGED <<dashboardData, isLoaded, pageSize, pageIndex, totalItems,
                   filterDepartment, filterStatus, filterTrend,
                   paginatorPageIndex, dashInited, dashReqs, dashSeq, dashOps,
                   dashLast, dashApplied, dashMaxApplied, dashResp>>

\* Mutant of LoadedAfterNext: a page without items is not counted as loaded.
LoadedAfterNext_NonEmpty(data) == data.total > 0

\* loadDashboardData() next: this.isLoaded = true
LoadedAfterNext(data) == TRUE

\* loadDashboardData() next: the response of request r is published.
DashboardNext(r) ==
    /\ UNCHANGED <<revVars, tblVars, logVars, entryVars>>
    /\ r \in dashReqs
    /\ dashReqs' = dashReqs \ {r}
    /\ dashboardData' = DashResponse(r.q)
    /\ totalItems' = DashResponse(r.q).total
    /\ isLoaded' = LoadedAfterNext(DashResponse(r.q))
    /\ dashApplied' = r.n
    /\ dashMaxApplied' = IF r.n > dashMaxApplied THEN r.n ELSE dashMaxApplied
    /\ dashResp' = "next"
    /\ UNCHANGED <<pageSize, pageIndex, filterDepartment, filterStatus,
                   filterTrend, departments, paginatorPageIndex, dashInited,
                   deptInFlight, dashSeq, dashOps, dashLast>>

\* Mutant of TotalAfterError: a failed fetch blanks the paginator's length.
TotalAfterError_Blank(prev) == 0

\* loadDashboardData() error: totalItems is not assigned.
TotalAfterError(prev) == prev

\* loadDashboardData() error: console.error only.
DashboardError(r) ==
    /\ UNCHANGED <<revVars, tblVars, logVars, entryVars>>
    /\ r \in dashReqs
    /\ dashReqs' = dashReqs \ {r}
    /\ totalItems' = TotalAfterError(totalItems)
    /\ dashResp' = "error"
    /\ UNCHANGED <<dashboardData, isLoaded, pageSize, pageIndex,
                   filterDepartment, filterStatus, filterTrend, departments,
                   paginatorPageIndex, dashInited, deptInFlight, dashSeq,
                   dashOps, dashLast, dashApplied, dashMaxApplied>>

\* onPageChange(event): the paginator has moved to the event's page.
OnPageChange(ev) ==
    /\ UNCHANGED <<revVars, tblVars, logVars, entryVars>>
    /\ dashInited
    /\ dashOps < MaxDashOps
    /\ ev \in PageEvents
    /\ dashOps' = dashOps + 1
    /\ paginatorPageIndex' = ev.pageIndex
    /\ pageIndex' = PageChangePageIndex(ev, pageIndex)
    /\ pageSize' = ev.pageSize
    /\ LoadDashboardData("page", pageIndex', pageSize',
                         filterDepartment, filterStatus, filterTrend)
    /\ UNCHANGED <<dashboardData, isLoaded, totalItems, filterDepartment,
                   filterStatus, filterTrend, departments, dashInited,
                   deptInFlight, dashApplied, dashMaxApplied, dashResp>>

\* The values a filter select can be set to.
DepartmentChoices == {NULL, ""} \cup departments
StatusChoices == {NULL, ""} \cup Statuses
TrendChoices == {NULL, ""} \cup Trends

\* onFilterChange(): one filter select has been set to a new value (the
\* select is bound to the filter field), then the handler runs.
OnFilterChange(dep, st, tr) ==
    /\ UNCHANGED <<revVars, tblVars, logVars, entryVars>>
    /\ dashInited
    /\ dashOps < MaxDashOps
    /\ \/ dep # filterDepartment /\ st = filterStatus /\ tr = filterTrend
       \/ dep = filterDepartment /\ st # filterStatus /\ tr = filterTrend
       \/ dep = filterDepartment /\ st = filterStatus /\ tr # filterTrend
    /\ dashOps' = dashOps + 1
    /\ filterDepartment' = dep
    /\ filterStatus' = st
    /\ filterTrend' = tr
    /\ pageIndex' = FilterChangePageIndex(pageIndex)
    /\ paginatorPageIndex' = 0
    /\ LoadDashboardData("filter", pageIndex', pageSize, dep, st, tr)
    /\ UNCHANGED <<dashboardData, isLoaded, pageSize, totalItems, departments,
                   dashInited, deptInFlight, dashApplied, dashMaxApplied,
                   dashResp>>

\* Mutant of ClearedFilter: the filter keeps its value.
ClearedFilter_Keep(v) == v

\* clearFilters(): this.filterDepartment = null (and status, trend alike)
ClearedFilter(v) == NULL

\* clearFilters()
ClearFilters ==
    /\ UNCHANGED <<revVars, tblVars, logVars, entryVars>>
    /\ dashInited
    /\ dashOps < MaxDashOps
    /\ dashOps' = dashOps + 1
    /\ filterDepartment' = ClearedFilter(filterDepartment)
    /\ filterStatus' = ClearedFilter(filterStatus)
    /\ filterTrend' = ClearedFilter(filterTrend)
    /\ pageIndex' = 0
    /\ paginatorPageIndex' = 0
    /\ LoadDashboardData("clear", pageIndex', pageSize, filterDepartment',
                         filterStatus', filterTrend')
    /\ UNCHANGED <<dashboardData, isLoaded, pageSize, totalItems, departments,
                   dashInited, deptInFlight, dashApplied, dashMaxApplied,
                   dashResp>>

DashNext ==
    \/ DashNgOnInit
    \/ DepartmentsNext
    \/ DepartmentsError
    \/ \E r \in dashReqs : DashboardNext(r)
    \/ \E r \in dashReqs : DashboardError(r)
    \/ \E ev \in PageEvents : OnPageChange(ev)
    \/ \E dep \in DepartmentChoices, st \in StatusChoices, tr \in TrendChoices :
          OnFilterChange(dep, st, tr)
    \/ ClearFilters

\* ------------------------------------------------------------------------
\* Reviews / ReviewModal: constants and backend stub
\* ------------------------------------------------------------------------

\* Validators.maxLength(500) on hr_notes
MaxNotesLength == 500

\* Number of reviews the backend holds as pending at the start.
NumReviews == 3

\* Number of reviewPrediction calls RevSpec follows.
MaxReviews == 1

\* Number of reviewPrediction calls RevOverlapSpec follows: enough for two
\* review workflows to be in progress at once.
MaxOverlap == 2

\* Page size of the pending-review table's paginator (set in the template).
ReviewPageSize == 2

ReviewIds == 1 .. NumReviews

Attempts == 1 .. (IF MaxReviews > MaxOverlap THEN MaxReviews ELSE MaxOverlap)

\* hr_notes is modelled by its length: empty, the longest allowed, one over
\* the bound.
NotesLengths == {0, MaxNotesLength, MaxNotesLength + 1}

\* daily_log_id of review `id` as carried by its GET /reviews/pending entry.
ListLogId(id) == 20 + id

\* prediction.daily_log_id of review `id` as returned by GET /reviews/{id}.
\* The two are kept apart so that the source of a log id can be told.
DetailLogId(id) == 40 + id

\* The body of GET /reviews/{id}.
DetailResponse(id) ==
    [prediction |-> [id |-> id, daily_log_id |-> DetailLogId(id)]]

\* One entry of the GET /reviews/pending list.
PendingReview(id) == [id |-> id, daily_log_id |-> ListLogId(id)]

\* ------------------------------------------------------------------------
\* ReviewModal: the form
\* ------------------------------------------------------------------------

\* Validators.required on a string: not null and not of length 0
Required(len) == len # 0

\* Validators.maxLength(500)
MaxLengthOk(len) == len <= MaxNotesLength

\* Mutant of FormValid: the maxLength validator is missing.
FormValid_NoMaxLength(notes, isCorrect) ==
    /\ Required(notes)
    /\ isCorrect \in BOOLEAN

\* reviewForm.valid: hr_notes [required, maxLength(500)], is_correct
\* [required] (a boolean is never empty).
FormValid(notes, isCorrect) ==
    /\ Required(notes)
    /\ MaxLengthOk(notes)
    /\ isCorrect \in BOOLEAN

\* ------------------------------------------------------------------------
\* Reviews: the table's client-side paging (MatTableDataSource + paginator)
\* ------------------------------------------------------------------------

Min(a, b) == IF a < b THEN a ELSE b
Max(a, b) == IF a > b THEN a ELSE b

\* Mutant of UpdatePaginator: the page index is left where it was.
UpdatePaginator_Keep(idx, len) == idx

\* MatTableDataSource, on new data with a paginator attached: the
\* paginator's length becomes the data length and a page index beyond the
\* last page is reduced to the last page (never below 0).
UpdatePaginator(idx, len) ==
    IF idx > 0
    THEN Max(Min(idx, CeilDiv(len, ReviewPageSize) - 1), 0)
    ELSE idx

\* The rows of `data` (ascending by id) on page idx.
PageRows(data, idx) ==
    {i \in data :
        LET rank == Cardinality({j \in data : j < i})
        IN  rank >= idx * ReviewPageSize /\ rank < (idx + 1) * ReviewPageSize}

\* ------------------------------------------------------------------------
\* Reviews: initial state
\* ------------------------------------------------------------------------

\* revLast when the last handler is not one a property singles out.
Other == [ev |-> "other", a |-> 0]

NoOutcome == [detail |-> "none", hist |-> "none", post |-> "none"]

RevInit ==
    /\ dataSource = {}
    /\ revIsLoading = TRUE
    /\ revPageIndex = 0
    /\ revPageLength = 0
    /\ modals = {}
    /\ revInited = FALSE
    /\ pendReqs = {}
    /\ detailReqs = {}
    /\ postReqs = {}
    /\ serverPending = ReviewIds
    /\ revClicks = 0
    /\ getsIssued = 0
    /\ submittedOk = {}
    /\ postLog = <<>>
    /\ histLog = {}
    /\ verdicts = {}
    /\ outcome = [a \in Attempts |-> NoOutcome]
    /\ revApplied = [n |-> 0, after |-> {}]
    /\ revLast = Other

\* ------------------------------------------------------------------------
\* Reviews: operations
\* ------------------------------------------------------------------------

\* loadPendingReviews() up to the subscribe: isLoading = true and the GET is
\* sent. `sub` is the set of ids known submitted when it is sent.
LoadPendingReviews(sub) ==
    [reqs    |-> pendReqs \cup {[n |-> getsIssued + 1, st |-> "sent",
                                 snap |-> {}, after |-> sub]},
     loading |-> TRUE,
     issued  |-> getsIssued + 1]

\* No call of loadPendingReviews().
NoLoad == [reqs |-> pendReqs, loading |-> revIsLoading, issued |-> getsIssued]

\* Mutant of AfterSubmit: the table is not refreshed.
AfterSubmit_NoRefresh(sub) == NoLoad

\* submitReview() next: console.log; this.loadPendingReviews()
AfterSubmit(sub) == LoadPendingReviews(sub)

\* Mutant of AfterSubmitError: a request is issued from the error callback.
AfterSubmitError_Reissue(sub) == LoadPendingReviews(sub)

\* submitReview() error: console.error only
AfterSubmitError(sub) == NoLoad

\* ngOnInit(): loadPendingReviews(); ngAfterViewInit(): the paginator is
\* attached to the data source. Both run in the first change detection.
\* The review queue is created only if the dashboard is not the page shown.
RevNgOnInit ==
    /\ UNCHANGED <<dashVars, tblVars, logVars, entryVars, revApplied>>
    /\ ~revInited
    /\ ~dashInited
    /\ revInited' = TRUE
    /\ LET eff == LoadPendingReviews(submittedOk)
       IN  /\ pendReqs' = eff.reqs
           /\ revIsLoading' = eff.loading
           /\ getsIssued' = eff.issued
    /\ revLast' = Other
    /\ UNCHANGED <<dataSource, revPageIndex, revPageLength, modals, detailReqs,
                   postReqs, serverPending, revClicks, submittedOk, postLog,
                   histLog, verdicts, outcome>>

\* Backend: GET /reviews/pending is answered with the reviews pending now.
ServePending(r) ==
    /\ UNCHANGED <<dashVars, tblVars, logVars, entryVars, revApplied>>
    /\ r \in pendReqs
    /\ r.st = "sent"
    /\ pendReqs' = (pendReqs \ {r}) \cup
                      {[r EXCEPT !.st = "answered", !.snap = serverPending]}
    /\ UNCHANGED <<dataSource, revIsLoading, revPageIndex, revPageLength,
                   modals, revInited, detailReqs, postReqs, serverPending,
                   revClicks, getsIssued, submittedOk, postLog, histLog,
                   verdicts, outcome, revLast>>

\* Mutant of PublishList: the response is merged into the list shown.
PublishList_Merge(prev, data) == prev \cup data

\* loadPendingReviews() next: this.dataSource.data = data
PublishList(prev, data) == data

\* loadPendingReviews() next: the list is published, isLoading = false, the
\* paginator is re-assigned and follows the new data length.
PendingNext(r) ==
    /\ UNCHANGED <<dashVars, tblVars, logVars, entryVars>>
    /\ r \in pendReqs
    /\ r.st = "answered"
    /\ pendReqs' = pendReqs \ {r}
    /\ dataSource' = PublishList(dataSource, r.snap)
    /\ revIsLoading' = FALSE
    /\ revPageLength' = Cardinality(dataSource')
    /\ revPageIndex' = UpdatePaginator(revPageIndex, Cardinality(dataSource'))
    /\ revApplied' = [n |-> r.n, after |-> r.after]
    /\ revLast' = [ev |-> IF revPageIndex' # revPageIndex
                          THEN "stepBack" ELSE "other", a |-> 0]
    /\ UNCHANGED <<modals, revInited, detailReqs, postReqs, serverPending,
                   revClicks, getsIssued, submittedOk, postLog, histLog,
                   verdicts, outcome>>

\* loadPendingReviews() error: console.error; isLoading = false
PendingError(r) ==
    /\ UNCHANGED <<dashVars, tblVars, logVars, entryVars, revApplied>>
    /\ r \in pendReqs
    /\ pendReqs' = pendReqs \ {r}
    /\ revIsLoading' = FALSE
    /\ revLast' = [ev |-> "pendingError", a |-> 0]
    /\ UNCHANGED <<dataSource, revPageIndex, revPageLength, modals, revInited,
                   detailReqs, postReqs, serverPending, revClicks, getsIssued,
                   submittedOk, postLog, histLog, verdicts, outcome>>

\* The user moves the pending-review table to another page (client side: no
\* request). A dialog's backdrop blocks the page behind it.
RevPageChange(p) ==
    /\ UNCHANGED <<dashVars, tblVars, logVars, entryVars, revApplied>>
    /\ revInited
    /\ modals = {}
    /\ p \in 0 .. LastPageIndex(revPageLength, ReviewPageSize)
    /\ p # revPageIndex
    /\ revPageIndex' = p
    /\ revLast' = Other
    /\ UNCHANGED <<dataSource, revIsLoading, revPageLength, modals, revInited,
                   pendReqs, detailReqs, postReqs, serverPending, revClicks,
                   getsIssued, submittedOk, postLog, histLog, verdicts, outcome>>

\* reviewPrediction(element) up to the subscribe: the user clicks Review on
\* a row of the displayed page; the detail GET is sent. Nothing in the code
\* guards the call; only an open dialog's backdrop blocks the click.
ReviewPrediction(id, cap) ==
    /\ UNCHANGED <<dashVars, tblVars, logVars, entryVars, revApplied>>
    /\ revInited
    /\ modals = {}
    /\ revClicks < cap
    /\ id \in PageRows(dataSource, revPageIndex)
    /\ revClicks' = revClicks + 1
    /\ detailReqs' = detailReqs \cup {[a |-> revClicks + 1, element |-> PendingReview(id)]}
    /\ outcome' = [outcome EXCEPT ![revClicks + 1].detail = "pending"]
    /\ revLast' = Other
    /\ UNCHANGED <<dataSource, revIsLoading, revPageIndex, revPageLength,
                   modals, revInited, pendReqs, postReqs, serverPending,
                   getsIssued, submittedOk, postLog, histLog, verdicts>>

\* Mutant of ModalLogId: the log id of the pending-list entry is used.
ModalLogId_FromList(element, details) == element.daily_log_id

\* modalData.log_id = details.prediction.daily_log_id
ModalLogId(element, details) == details.prediction.daily_log_id

\* reviewPrediction() next: modalData is built from the response, the dialog
\* opens, and ReviewModal.ngOnInit sends the history GET for data.log_id.
DetailNext(d) ==
    /\ UNCHANGED <<dashVars, tblVars, logVars, entryVars, revApplied>>
    /\ d \in detailReqs
    /\ detailReqs' = detailReqs \ {d}
    /\ LET details == DetailResponse(d.element.id)
           logId   == ModalLogId(d.element, details)
       IN  /\ modals' = modals \cup
                  {[a |-> d.a, element |-> d.element,
                    id |-> details.prediction.id, log_id |-> logId,
                    historyData |-> NULL]}
           /\ histLog' = histLog \cup {[a |-> d.a, log_id |-> logId,
                                        element |-> d.element]}
    /\ outcome' = [outcome EXCEPT ![d.a].detail = "ok", ![d.a].hist = "pending"]
    /\ revLast' = Other
    /\ UNCHANGED <<dataSource, revIsLoading, revPageIndex, revPageLength,
                   revInited, pendReqs, postReqs, serverPending, revClicks,
                   getsIssued, submittedOk, postLog, verdicts>>

\* Mutant of DialogsAfterDetailError: the dialog opens on the list entry.
DialogsAfterDetailError_OpenOnEntry(d) ==
    {[a |-> d.a, element |-> d.element, id |-> d.element.id,
      log_id |-> d.element.daily_log_id, historyData |-> NULL]}

\* reviewPrediction() error: the dialogs the callback opens (none)
DialogsAfterDetailError(d) == {}

\* reviewPrediction() error: console.error only
DetailError(d) ==
    /\ UNCHANGED <<dashVars, tblVars, logVars, entryVars, revApplied>>
    /\ d \in detailReqs
    /\ detailReqs' = detailReqs \ {d}
    /\ modals' = modals \cup DialogsAfterDetailError(d)
    /\ outcome' = [outcome EXCEPT ![d.a].detail = "err"]
    /\ revLast' = Other
    /\ UNCHANGED <<dataSource, revIsLoading, revPageIndex, revPageLength,
                   revInited, pendReqs, postReqs, serverPending,
                   revClicks, getsIssued, submittedOk, postLog, histLog,
                   verdicts>>

\* loadSubsequentLogs() next: historyData.set(rows). The callback of a
\* dialog that has been closed changes nothing that is read afterwards; the
\* model follows the response only while the dialog is open.
HistoryNext(a) ==
    /\ UNCHANGED <<dashVars, tblVars, logVars, entryVars, revApplied>>
    /\ a \in Attempts
    /\ \E m \in modals : m.a = a
    /\ outcome[a].hist = "pending"
    /\ outcome' = [outcome EXCEPT ![a].hist = "ok"]
    /\ modals' = {IF m.a = a THEN [m EXCEPT !.historyData = m.log_id] ELSE m :
                    m \in modals}
    /\ revLast' = Other
    /\ UNCHANGED <<dataSource, revIsLoading, revPageIndex, revPageLength,
                   revInited, pendReqs, detailReqs, postReqs, serverPending,
                   revClicks, getsIssued, submittedOk, postLog, histLog,
                   verdicts>>

\* loadSubsequentLogs() error: console.error only
HistoryError(a) ==
    /\ UNCHANGED <<dashVars, tblVars, logVars, entryVars, revApplied>>
    /\ a \in Attempts
    /\ \E m \in modals : m.a = a
    /\ outcome[a].hist = "pending"
    /\ outcome' = [outcome EXCEPT ![a].hist = "err"]
    /\ revLast' = Other
    /\ UNCHANGED <<dataSource, revIsLoading, revPageIndex, revPageLength,
                   modals, revInited, pendReqs, detailReqs, postReqs,
                   serverPending, revClicks, getsIssued, submittedOk, postLog,
                   histLog, verdicts>>

\* submitReview(id, originalRisk, result): the payload and the POST.
SubmitPayload(a, id, result) ==
    [a |-> a, id |-> id, is_correct |-> result.is_correct,
     hr_notes |-> result.hr_notes, st |-> "sent"]

\* The result a closed dialog hands to afterClosed: <<>> when the dialog was
\* closed without one (undefined), <<value>> when closed with the form value.
NoResult == <<>>

\* Mutant of ReviewedId: the id is read from a field shared by the attempts,
\* which holds the review of the dialog opened last.
ReviewedId_Shared(m) ==
    (CHOOSE x \in modals : \A y \in modals : y.a <= x.a).element.id

\* afterClosed: submitReview(element.id, ...), element being the parameter
\* of the reviewPrediction call that opened the dialog.
ReviewedId(m) == m.element.id

\* Mutant of AfterClosed: submitReview is called whatever the result is.
AfterClosed_AlwaysSubmit(m, result) ==
    <<SubmitPayload(m.a, ReviewedId(m),
                    IF result # NoResult THEN result[1]
                    ELSE [is_correct |-> TRUE, hr_notes |-> 0])>>

\* dialogRef.afterClosed(): if (result) submitReview(element.id, ..., result).
\* The POSTs the callback sends.
AfterClosed(m, result) ==
    IF result # NoResult
    THEN <<SubmitPayload(m.a, ReviewedId(m), result[1])>>
    ELSE <<>>

\* onConfirm(): the user has filled the form with (notes, isCorrect) and
\* clicks Confirm. A valid form
\* closes the dialog with the form value; afterClosed then calls
\* submitReview(element.id, ..., result), which sends the POST. An invalid
\* form leaves the dialog open.
OnConfirm(m, notes, isCorrect) ==
    /\ UNCHANGED <<dashVars, tblVars, logVars, entryVars, revApplied>>
    /\ m \in modals
    /\ notes \in NotesLengths
    /\ isCorrect \in BOOLEAN
    /\ IF FormValid(notes, isCorrect)
       THEN LET result == [is_correct |-> isCorrect, hr_notes |-> notes]
                posts  == AfterClosed(m, <<result>>)
            IN  /\ modals' = modals \ {m}
                /\ postReqs' = postReqs \cup {posts[i] : i \in 1 .. Len(posts)}
                /\ postLog' = postLog \o posts
                /\ verdicts' = verdicts \cup
                      {[a |-> m.a, id |-> m.element.id, result |-> result,
                        hist |-> outcome[m.a].hist]}
                /\ outcome' = [outcome EXCEPT ![m.a].post = "pending"]
                /\ revLast' = Other
       ELSE /\ revLast' = [ev |-> "confirmInvalid", a |-> m.a]
            /\ UNCHANGED <<modals, postReqs, postLog, verdicts, outcome>>
    /\ UNCHANGED <<dataSource, revIsLoading, revPageIndex, revPageLength,
                   revInited, pendReqs, detailReqs, serverPending, revClicks,
                   getsIssued, submittedOk, histLog>>

\* The dialog is closed without a result (Cancel): afterClosed sees a falsy
\* result and does not call submitReview.
OnCancel(m) ==
    /\ UNCHANGED <<dashVars, tblVars, logVars, entryVars, revApplied>>
    /\ m \in modals
    /\ modals' = modals \ {m}
    /\ LET posts == AfterClosed(m, NoResult)
       IN  /\ postReqs' = postReqs \cup {posts[i] : i \in 1 .. Len(posts)}
           /\ postLog' = postLog \o posts
    /\ revLast' = [ev |-> "cancel", a |-> m.a]
    /\ UNCHANGED <<dataSource, revIsLoading, revPageIndex, revPageLength,
                   revInited, pendReqs, detailReqs, serverPending,
                   revClicks, getsIssued, submittedOk, histLog,
                   verdicts, outcome>>

\* Backend: POST /reviews/{id}/submit. A pending review is recorded and
\* leaves the pending set; one that is no longer pending is rejected.
ServePost(p) ==
    /\ UNCHANGED <<dashVars, tblVars, logVars, entryVars, revApplied>>
    /\ p \in postReqs
    /\ p.st = "sent"
    /\ IF p.id \in serverPending
       THEN /\ serverPending' = serverPending \ {p.id}
            /\ postReqs' = (postReqs \ {p}) \cup {[p EXCEPT !.st = "accepted"]}
       ELSE /\ serverPending' = serverPending
            /\ postReqs' = (postReqs \ {p}) \cup {[p EXCEPT !.st = "rejected"]}
    /\ UNCHANGED <<dataSource, revIsLoading, revPageIndex, revPageLength,
                   modals, revInited, pendReqs, detailReqs, revClicks,
                   getsIssued, submittedOk, postLog, histLog, verdicts,
                   outcome, revLast>>

\* submitReview() next
SubmitNext(p) ==
    /\ UNCHANGED <<dashVars, tblVars, logVars, entryVars, revApplied>>
    /\ p \in postReqs
    /\ p.st = "accepted"
    /\ postReqs' = postReqs \ {p}
    /\ submittedOk' = submittedOk \cup {p.id}
    /\ LET eff == AfterSubmit(submittedOk')
       IN  /\ pendReqs' = eff.reqs
           /\ revIsLoading' = eff.loading
           /\ getsIssued' = eff.issued
    /\ outcome' = [outcome EXCEPT ![p.a].post = "ok"]
    /\ revLast' = Other
    /\ UNCHANGED <<dataSource, revPageIndex, revPageLength, modals, revInited,
                   detailReqs, serverPending, revClicks, postLog, histLog,
                   verdicts>>

\* submitReview() error: the backend rejected the verdict, or the request or
\* its response was lost.
SubmitError(p) ==
    /\ UNCHANGED <<dashVars, tblVars, logVars, entryVars, revApplied>>
    /\ p \in postReqs
    /\ postReqs' = postReqs \ {p}
    /\ LET eff == AfterSubmitError(submittedOk)
       IN  /\ pendReqs' = eff.reqs
           /\ revIsLoading' = eff.loading
           /\ getsIssued' = eff.issued
    /\ outcome' = [outcome EXCEPT ![p.a].post = "err"]
    /\ revLast' = Other
    /\ UNCHANGED <<dataSource, revPageIndex, revPageLength, modals, revInited,
                   detailReqs, serverPending, revClicks, submittedOk, postLog,
                   histLog, verdicts>>

RevStep(cap) ==
    \/ RevNgOnInit
    \/ \E r \in pendReqs : ServePending(r)
    \/ \E r \in pendReqs : PendingNext(r)
    \/ \E r \in pendReqs : PendingError(r)
    \/ \E p \in 0 .. NumReviews : RevPageChange(p)
    \/ \E id \in ReviewIds : ReviewPrediction(id, cap)
    \/ \E d \in detailReqs : DetailNext(d)
    \/ \E d \in detailReqs : DetailError(d)
    \/ \E a \in Attempts : HistoryNext(a)
    \/ \E a \in Attempts : HistoryError(a)
    \/ \E m \in modals, notes \in NotesLengths, c \in BOOLEAN : OnConfirm(m, notes, c)
    \/ \E m \in modals : OnCancel(m)
    \/ \E p \in postReqs : ServePost(p)
    \/ \E p \in postReqs : SubmitNext(p)
    \/ \E p \in postReqs : SubmitError(p)

\* ------------------------------------------------------------------------
\* PredictionTable (prediction-table.ts) and Reviews.getStatusClass
\* ------------------------------------------------------------------------

\* A JavaScript value that is a string, null or undefined (a missing
\* field). A string is the sequence of its characters.
Str(chars) == [kind |-> "string", chars |-> chars]
JsNull == [kind |-> "null", chars |-> <<>>]
JsUndefined == [kind |-> "undefined", chars |-> <<>>]

LowerLetters == <<"a", "b", "c", "d", "e", "f", "g", "h", "i", "j", "k", "l", "m",
                  "n", "o", "p", "q", "r", "s", "t", "u", "v", "w", "x", "y", "z">>
UpperLetters == <<"A", "B", "C", "D", "E", "F", "G", "H", "I", "J", "K", "L", "M",
                  "N", "O", "P", "Q", "R", "S", "T", "U", "V", "W", "X", "Y", "Z">>

\* Position of character c in the alphabet `letters`, 0 if it is not there.
LetterIndex(letters, c) ==
    IF \E i \in 1 .. Len(letters) : letters[i] = c
    THEN CHOOSE i \in 1 .. Len(letters) : letters[i] = c
    ELSE 0

UpperChar(c) ==
    IF LetterIndex(LowerLetters, c) # 0
    THEN UpperLetters[LetterIndex(LowerLetters, c)] ELSE c

LowerChar(c) ==
    IF LetterIndex(UpperLetters, c) # 0
    THEN LowerLetters[LetterIndex(UpperLetters, c)] ELSE c

\* v?.toUpperCase(): undefined for null and undefined.
ToUpperCase(v) ==
    IF v.kind = "string"
    THEN Str([i \in 1 .. Len(v.chars) |-> UpperChar(v.chars[i])])
    ELSE JsUndefined

\* v?.toLowerCase(): undefined for null and undefined.
ToLowerCase(v) ==
    IF v.kind = "string"
    THEN Str([i \in 1 .. Len(v.chars) |-> LowerChar(v.chars[i])])
    ELSE JsUndefined

\* PredictionTable.getStatusClass
GetStatusClass(status) ==
    LET u == ToUpperCase(status)
    IN  CASE u = Str(<<"C", "R", "I", "T", "I", "C", "A", "L">>) -> "status-critical"
          [] u = Str(<<"H", "I", "G", "H">>)                     -> "status-high"
          [] u = Str(<<"M", "E", "D", "I", "U", "M">>)           -> "status-medium"
          [] u = Str(<<"L", "O", "W">>)                          -> "status-low"
          [] u = Str(<<"N", "O", "R", "M", "A", "L">>)           -> "status-low"
          [] OTHER                                               -> "status-low"

\* Reviews.getStatusClass
ReviewsGetStatusClass(status) ==
    LET u == ToUpperCase(status)
    IN  CASE u = Str(<<"C", "R", "I", "T", "I", "C", "A", "L">>) -> "status-critical"
          [] u = Str(<<"H", "I", "G", "H">>)                     -> "status-high"
          [] u = Str(<<"M", "E", "D", "I", "U", "M">>)           -> "status-medium"
          [] u = Str(<<"L", "O", "W">>)                          -> "status-low"
          [] u = Str(<<"N", "O", "R", "M", "A", "L">>)           -> "status-low"
          [] OTHER                                               -> "status-default"

\* Mutant of GetTrendIcon: the trend is compared as it comes.
GetTrendIcon_CaseSensitive(trend) ==
    CASE trend = Str(<<"i", "n", "c", "r", "e", "a", "s", "i", "n", "g">>) -> "trending_up"
      [] trend = Str(<<"d", "e", "c", "r", "e", "a", "s", "i", "n", "g">>) -> "trending_down"
      [] OTHER -> "trending_flat"

\* PredictionTable.getTrendIcon
GetTrendIcon(trend) ==
    LET l == ToLowerCase(trend)
    IN  CASE l = Str(<<"i", "n", "c", "r", "e", "a", "s", "i", "n", "g">>) -> "trending_up"
          [] l = Str(<<"d", "e", "c", "r", "e", "a", "s", "i", "n", "g">>) -> "trending_down"
          [] OTHER -> "trending_flat"

\* (item.name || '?').charAt(0): '' and undefined are falsy.
Initial(name) ==
    IF name.kind = "string" /\ name.chars # <<>>
    THEN Str(<<name.chars[1]>>)
    ELSE Str(<<"?">>)

\* item.has_feedback ? 'confirmed' : 'buttons'
FeedbackType(item) ==
    IF item.has_feedback = "true" THEN "confirmed" ELSE "buttons"

\* The body of data.map(item => ...) in the predictions setter.
ToEmployeeData(item) ==
    [initial      |-> Initial(item.name),
     name         |-> item.name,
     role         |-> item.role,
     department   |-> item.department,
     riskScore    |-> item.risk_score,
     status       |-> item.status,
     statusClass  |-> GetStatusClass(item.status),
     trendIcon    |-> GetTrendIcon(item.trend),
     feedbackType |-> FeedbackType(item)]

\* Raw status values of the payload: the known statuses in several letter
\* cases, the empty string, unknown strings, null and a missing field.
RawStatuses ==
    {Str(<<"C", "R", "I", "T", "I", "C", "A", "L">>),
     Str(<<"C", "r", "i", "t", "i", "c", "a", "l">>),
     Str(<<"H", "I", "G", "H">>), Str(<<"H", "i", "g", "h">>),
     Str(<<"M", "E", "D", "I", "U", "M">>), Str(<<"m", "e", "d", "i", "u", "m">>),
     Str(<<"L", "O", "W">>), Str(<<"l", "o", "w">>),
     Str(<<"N", "O", "R", "M", "A", "L">>), Str(<<"n", "o", "r", "m", "a", "l">>),
     Str(<<>>), Str(<<"w", "e", "i", "r", "d">>),
     Str(<<"H", "i", "g", "h", " ", "R", "i", "s", "k">>),
     JsNull, JsUndefined}

\* Raw trend values of the payload.
RawTrends ==
    {Str(<<"i", "n", "c", "r", "e", "a", "s", "i", "n", "g">>),
     Str(<<"I", "N", "C", "R", "E", "A", "S", "I", "N", "G">>),
     Str(<<"I", "n", "c", "r", "e", "a", "s", "i", "n", "g">>),
     Str(<<"d", "e", "c", "r", "e", "a", "s", "i", "n", "g">>),
     Str(<<"D", "e", "c", "r", "e", "a", "s", "i", "n", "g">>),
     Str(<<"s", "t", "a", "b", "l", "e">>),
     Str(<<>>), Str(<<"u", "p">>),
     JsNull, JsUndefined}

\* Raw names of the payload.
RawNames == {Str(<<"J", "o", "h", "n">>), Str(<<>>), JsUndefined}

\* The feedback a record carries: has_feedback and the verdict stored with
\* it ("none" when no human verdict has been given).
RawFeedback ==
    {[has_feedback |-> "true",      verdict |-> "confirmed"],
     [has_feedback |-> "true",      verdict |-> "rejected"],
     [has_feedback |-> "false",     verdict |-> "none"],
     [has_feedback |-> "undefined", verdict |-> "none"]}

RawItems ==
    {[name |-> n, role |-> Str(<<"D", "e", "v">>),
      department |-> Str(<<"R", "&", "D">>), risk_score |-> 78,
      status |-> st, trend |-> tr,
      has_feedback |-> fb.has_feedback, verdict |-> fb.verdict] :
        n \in RawNames, st \in RawStatuses, tr \in RawTrends, fb \in RawFeedback}

\* class of a pending-review row before the template has rendered it
NotRendered == "<not rendered>"

\* PredictionTable after construction (dataSource = []), before any record
\* of the payload is looked at.
TblIdle ==
    /\ rawItem = CHOOSE it \in RawItems : it.status = JsNull /\ it.trend = JsNull
                                          /\ it.name = JsUndefined
                                          /\ it.has_feedback = "undefined"
    /\ tableDataSource = <<>>
    /\ queueStatusClass = NotRendered

\* The same, the record to be displayed being any record of RawItems.
TblInit ==
    /\ rawItem \in RawItems
    /\ tableDataSource = <<>>
    /\ queueStatusClass = NotRendered

\* The value bound to [predictions] while the parent has no data (null).
NoData == <<>>

\* @Input() set predictions(data): if (data) this.dataSource = data.map(...).
\* The parent binds either nothing yet (null) or the list holding rawItem.
SetPredictions(data) ==
    /\ UNCHANGED <<dashVars, revVars, logVars, entryVars>>
    /\ data \in {NoData, <<rawItem>>}
    /\ tableDataSource' =
          IF data # NoData
          THEN [i \in 1 .. Len(data) |-> ToEmployeeData(data[i])]
          ELSE tableDataSource
    /\ UNCHANGED <<rawItem, queueStatusClass>>

\* The pending-review table renders the status cell of a row whose
\* burnout_risk is the raw status: [ngClass]="getStatusClass(...)".
RenderQueueStatus ==
    /\ UNCHANGED <<dashVars, revVars, logVars, entryVars>>
    /\ queueStatusClass' = ReviewsGetStatusClass(rawItem.status)
    /\ UNCHANGED <<rawItem, tableDataSource>>

TblNext ==
    \/ \E data \in {NoData, <<rawItem>>} : SetPredictions(data)
    \/ RenderQueueStatus

\* ------------------------------------------------------------------------
\* EmployeeDailyLogs
\* ------------------------------------------------------------------------

\* Bound: user operations (selections, page changes) on the log view.
MaxLogOps == 3

\* selectedEmployeeId = null. The field is number | null and the code reads it
\* by truthiness only, which null shares with 0.
NoEmployee == 0

\* The employees GET /employees returns.
EmployeeIds == {1, 2}

\* pageSize = 10
LogPageSize == 10

\* Backend: the number of logs of an employee.
LogTotal(emp) == IF emp = 1 THEN 25 ELSE 5

\* The response body of GET /daily-logs/employee/{id} for query q.
LogResponse(q) == [items |-> [emp |-> q.emp, page |-> q.page], total |-> LogTotal(q.emp)]

\* dataSource.data = [] before the first response.
NoLogs == [emp |-> NoEmployee, page |-> 0]

NoLogReq == [emp |-> NoEmployee, page |-> 0, page_size |-> 0]

NoLogOp == [op |-> "none", prevIndex |-> 0, issued |-> FALSE, req |-> NoLogReq]

\* loadLogs(): if (!this.selectedEmployeeId) return;
EmployeeSelected(id) == id # NoEmployee

\* loadLogs(): page = this.paginator ? this.paginator.pageIndex + 1 : 1
LogPage(hasPaginator, idx) == IF hasPaginator THEN idx + 1 ELSE 1

\* loadLogs(): size = this.paginator ? this.paginator.pageSize : this.pageSize
LogSize(hasPaginator) == LogPageSize

\* Mutant of SelectPageIndex: the paginator keeps its page.
SelectPageIndex_Keep(idx) == idx

\* onEmployeeSelect(): if (this.paginator) this.paginator.pageIndex = 0
SelectPageIndex(idx) == 0

LogInit ==
    /\ employees = {}
    /\ selectedEmployeeId = NoEmployee
    /\ logData = NoLogs
    /\ totalLogs = 0
    /\ logIsLoaded = FALSE
    /\ logIsLoading = FALSE
    /\ logHasPaginator = FALSE
    /\ logPageIndex = 0
    /\ logInited = FALSE
    /\ empInFlight = FALSE
    /\ logReqs = {}
    /\ logSeq = 0
    /\ logOps = 0
    /\ logLast = NoLogOp
    /\ logLastReq = NoLogReq
    /\ logFailed = FALSE

\* loadLogs(), called by handler op with the employee and page index the
\* handler has just set: returns at once when no employee is selected, else
\* sets isLoading and sends the GET.
LoadLogs(op, sel, idx) ==
    IF ~EmployeeSelected(sel)
    THEN /\ logLast' = [op |-> op, prevIndex |-> logPageIndex,
                        issued |-> FALSE, req |-> NoLogReq]
         /\ UNCHANGED <<logReqs, logSeq, logIsLoading, logLastReq>>
    ELSE LET q == [emp |-> sel, page |-> LogPage(logHasPaginator, idx),
                   page_size |-> LogSize(logHasPaginator)]
         IN  /\ logIsLoading' = TRUE
             /\ logReqs' = logReqs \cup {[n |-> logSeq + 1, q |-> q]}
             /\ logSeq' = logSeq + 1
             /\ logLastReq' = q
             /\ logLast' = [op |-> op, prevIndex |-> logPageIndex,
                            issued |-> TRUE, req |-> q]

\* ngOnInit(): loadEmployees()
LogNgOnInit ==
    /\ UNCHANGED <<dashVars, revVars, tblVars, entryVars>>
    /\ ~logInited
    /\ logInited' = TRUE
    /\ empInFlight' = TRUE
    /\ UNCHANGED <<employees, selectedEmployeeId, logData, totalLogs,
                   logIsLoaded, logIsLoading, logHasPaginator, logPageIndex,
                   logReqs, logSeq, logOps, logLast, logLastReq, logFailed>>

\* loadEmployees() next: this.employees.set(data)
EmployeesNext ==
    /\ UNCHANGED <<dashVars, revVars, tblVars, entryVars>>
    /\ empInFlight
    /\ empInFlight' = FALSE
    /\ employees' = EmployeeIds
    /\ UNCHANGED <<selectedEmployeeId, logData, totalLogs, logIsLoaded,
                   logIsLoading, logHasPaginator, logPageIndex, logInited,
                   logReqs, logSeq, logOps, logLast, logLastReq, logFailed>>

\* loadEmployees() error: console.error only
EmployeesError ==
    /\ UNCHANGED <<dashVars, revVars, tblVars, entryVars>>
    /\ empInFlight
    /\ empInFlight' = FALSE
    /\ UNCHANGED <<employees, selectedEmployeeId, logData, totalLogs,
                   logIsLoaded, logIsLoading, logHasPaginator, logPageIndex,
                   logInited, logReqs, logSeq, logOps, logLast, logLastReq,
                   logFailed>>

\* The view renders its MatPaginator and the @ViewChild query resolves. The
\* component does not control when: the code tests this.paginator before
\* every use.
PaginatorRendered ==
    /\ UNCHANGED <<dashVars, revVars, tblVars, entryVars>>
    /\ logInited
    /\ ~logHasPaginator
    /\ logHasPaginator' = TRUE
    /\ logPageIndex' = 0
    /\ UNCHANGED <<employees, selectedEmployeeId, logData, totalLogs,
                   logIsLoaded, logIsLoading, logInited, empInFlight,
                   logReqs, logSeq, logOps, logLast, logLastReq, logFailed>>

\* onEmployeeSelect(event): event.value is the id of one of the employees
\* offered, or null when the selection is emptied.
OnEmployeeSelect(v) ==
    /\ UNCHANGED <<dashVars, revVars, tblVars, entryVars>>
    /\ logInited
    /\ v \in employees \cup {NoEmployee}
    /\ logOps < MaxLogOps
    /\ logOps' = logOps + 1
    /\ selectedEmployeeId' = v
    /\ logPageIndex' = IF logHasPaginator THEN SelectPageIndex(logPageIndex)
                       ELSE logPageIndex
    /\ LoadLogs("select", v, logPageIndex')
    /\ UNCHANGED <<employees, logData, totalLogs, logIsLoaded,
                   logHasPaginator, logInited, empInFlight, logFailed>>

\* The page indexes the MatPaginator of the log table can move to: first,
\* previous, next, last page of totalLogs items.
LogPageTargets ==
    LET last == LastPageIndex(totalLogs, LogPageSize)
    IN  {p \in {0, logPageIndex - 1, logPageIndex + 1, last} :
            p >= 0 /\ p <= last /\ p # logPageIndex}

\* onPageChange(event): loadLogs(). The paginator has moved to the page of
\* the event before it emits it.
OnLogPageChange(p) ==
    /\ UNCHANGED <<dashVars, revVars, tblVars, entryVars>>
    /\ logHasPaginator
    /\ p \in LogPageTargets
    /\ logOps < MaxLogOps
    /\ logOps' = logOps + 1
    /\ logPageIndex' = p
    /\ LoadLogs("page", selectedEmployeeId, p)
    /\ UNCHANGED <<employees, selectedEmployeeId, logData, totalLogs,
                   logIsLoaded, logHasPaginator, logInited, empInFlight,
                   logFailed>>

\* loadLogs() next: dataSource.data = response.items; totalLogs =
\* response.total; isLoaded = true; isLoading = false
LogsNext(r) ==
    /\ UNCHANGED <<dashVars, revVars, tblVars, entryVars>>
    /\ r \in logReqs
    /\ logReqs' = logReqs \ {r}
    /\ logData' = LogResponse(r.q).items
    /\ totalLogs' = LogResponse(r.q).total
    /\ logIsLoaded' = TRUE
    /\ logIsLoading' = FALSE
    /\ UNCHANGED <<employees, selectedEmployeeId, logHasPaginator,
                   logPageIndex, logInited, empInFlight, logSeq, logOps,
                   logLast, logLastReq, logFailed>>

\* loadLogs() error: console.error; isLoading = false
LogsError(r) ==
    /\ UNCHANGED <<dashVars, revVars, tblVars, entryVars>>
    /\ r \in logReqs
    /\ logReqs' = logReqs \ {r}
    /\ logIsLoading' = FALSE
    /\ logFailed' = TRUE
    /\ UNCHANGED <<employees, selectedEmployeeId, logData, totalLogs,
                   logIsLoaded, logHasPaginator, logPageIndex, logInited,
                   empInFlight, logSeq, logOps, logLast, logLastReq>>

LogNext ==
    \/ LogNgOnInit
    \/ EmployeesNext
    \/ EmployeesError
    \/ PaginatorRendered
    \/ \E v \in EmployeeIds \cup {NoEmployee} : OnEmployeeSelect(v)
    \/ \E p \in 0 .. 2 : OnLogPageChange(p)
    \/ \E r \in logReqs : LogsNext(r)
    \/ \E r \in logReqs : LogsError(r)

\* ------------------------------------------------------------------------
\* DailyLogsEntryComponent
\* ------------------------------------------------------------------------

\* Bound: POSTs (generate-random, train) the user starts.
MaxEntryOps == 3

\* batchSizeOptions = [5, 10, 20, 50]
BatchSizeOptions == {5, 10, 20, 50}

\* batchSize = 5
InitialBatchSize == 5

\* dataSource = signal(null): <<>> is null, <<n>> the n logs of a response.
NoGenerated == <<>>

EntryInit ==
    /\ batchSize = InitialBatchSize
    /\ entryData = NoGenerated
    /\ entryIsLoading = FALSE
    /\ snackBar = "none"
    /\ entryReqs = {}
    /\ entrySeq = 0

\* The batch size select: batchSize is set to one of batchSizeOptions.
SetBatchSize(b) ==
    /\ UNCHANGED <<dashVars, revVars, tblVars, logVars>>
    /\ b \in BatchSizeOptions \ {batchSize}
    /\ batchSize' = b
    /\ UNCHANGED <<entryData, entryIsLoading, snackBar, entryReqs, entrySeq>>

\* generateLogs(): isLoading = true; POST /daily-logs/generate-random
GenerateLogs ==
    /\ UNCHANGED <<dashVars, revVars, tblVars, logVars>>
    /\ entrySeq < MaxEntryOps
    /\ entryIsLoading' = TRUE
    /\ entryReqs' = entryReqs \cup
          {[n |-> entrySeq + 1, kind |-> "generate", batch_size |-> batchSize]}
    /\ entrySeq' = entrySeq + 1
    /\ UNCHANGED <<batchSize, entryData, snackBar>>

\* generateLogs() next: dataSource.set(response.generated_logs); isLoading =
\* false; the success snack bar opens
GenerateNext(r) ==
    /\ UNCHANGED <<dashVars, revVars, tblVars, logVars>>
    /\ r \in entryReqs /\ r.kind = "generate"
    /\ entryReqs' = entryReqs \ {r}
    /\ entryData' = <<r.batch_size>>
    /\ entryIsLoading' = FALSE
    /\ snackBar' = "generated"
    /\ UNCHANGED <<batchSize, entrySeq>>

\* generateLogs() error: isLoading = false; the error snack bar opens
GenerateError(r) ==
    /\ UNCHANGED <<dashVars, revVars, tblVars, logVars>>
    /\ r \in entryReqs /\ r.kind = "generate"
    /\ entryReqs' = entryReqs \ {r}
    /\ entryIsLoading' = FALSE
    /\ snackBar' = "generateFailed"
    /\ UNCHANGED <<batchSize, entryData, entrySeq>>

\* trainModel(): isLoading = true; POST /predictions/train
TrainModel ==
    /\ UNCHANGED <<dashVars, revVars, tblVars, logVars>>
    /\ entrySeq < MaxEntryOps
    /\ entryIsLoading' = TRUE
    /\ entryReqs' = entryReqs \cup
          {[n |-> entrySeq + 1, kind |-> "train", batch_size |-> 0]}
    /\ entrySeq' = entrySeq + 1
    /\ UNCHANGED <<batchSize, entryData, snackBar>>

\* trainModel() next: isLoading = false; the metrics snack bar opens
TrainNext(r) ==
    /\ UNCHANGED <<dashVars, revVars, tblVars, logVars>>
    /\ r \in entryReqs /\ r.kind = "train"
    /\ entryReqs' = entryReqs \ {r}
    /\ entryIsLoading' = FALSE
    /\ snackBar' = "trained"
    /\ UNCHANGED <<batchSize, entryData, entrySeq>>

\* trainModel() error: isLoading = false; the error snack bar opens
TrainError(r) ==
    /\ UNCHANGED <<dashVars, revVars, tblVars, logVars>>
    /\ r \in entryReqs /\ r.kind = "train"
    /\ entryReqs' = entryReqs \ {r}
    /\ entryIsLoading' = FALSE
    /\ snackBar' = "trainFailed"
    /\ UNCHANGED <<batchSize, entryData, entrySeq>>

EntryNext ==
    \/ \E b \in BatchSizeOptions : SetBatchSize(b)
    \/ GenerateLogs
    \/ TrainModel
    \/ \E r \in entryReqs : GenerateNext(r)
    \/ \E r \in entryReqs : GenerateError(r)
    \/ \E r \in entryReqs : TrainNext(r)
    \/ \E r \in entryReqs : TrainError(r)

\* ------------------------------------------------------------------------
\* Specifications
\* ------------------------------------------------------------------------

Init == DashInit /\ RevInit /\ TblIdle /\ LogInit /\ EntryInit

DashSpec == Init /\ [][DashNext]_vars

\* The pending-review queue with MaxReviews review attempts.
RevNext == RevStep(MaxReviews)

RevSpec == Init /\ [][RevNext]_vars

\* The pending-review queue with MaxOverlap review attempts.
RevOverlapNext == RevStep(MaxOverlap)

RevOverlapSpec == Init /\ [][RevOverlapNext]_vars

\* A session on either routed page (hr-routing-module: 'dashboard' and
\* 'reviews' are separate routes, so one of the two components exists).
HrNext == DashNext \/ RevNext

HrSpec == Init /\ [][HrNext]_vars

\* The display mappings applied to one record of the payload.
TblStart == DashInit /\ RevInit /\ TblInit /\ LogInit /\ EntryInit

TblSpec == TblStart /\ [][TblNext]_vars

\* The employee daily-log view.
LogSpec == Init /\ [][LogNext]_vars

\* The batch log-entry page.
EntrySpec == Init /\ [][EntryNext]_vars

Next == DashNext \/ RevOverlapNext \/ TblNext \/ LogNext \/ EntryNext

Spec == Init /\ [][Next]_vars

\* ------------------------------------------------------------------------
\* Properties
\* ------------------------------------------------------------------------

\* Attempts whose POST has been answered to the client, successfully or not.
PostsResolved == {a \in Attempts : outcome[a].post \in {"ok", "err"}}

PostsSucceeded == {a \in Attempts : outcome[a].post = "ok"}

\* Number of POSTs attempt a has issued.
PostsOf(a) == Cardinality({i \in 1 .. Len(postLog) : postLog[i].a = a})

InitialLoads == IF revInited THEN 1 ELSE 0

\* C1 (as claimed): the published dashboard result is never that of a fetch
\* issued before a fetch whose result has already been applied: a superseded
\* fetch's response does not overwrite the result of a later-issued fetch.
C1_SupersededFetchDiscarded == dashApplied = dashMaxApplied

\* C2: every POST carries hr_notes that is non-empty and at most 500
\* characters long, and after a confirm with an invalid form the dialog is
\* still open and the attempt has issued no POST.
C2_InvalidVerdictNotSubmitted ==
    /\ \A i \in 1 .. Len(postLog) :
          postLog[i].hr_notes >= 1 /\ postLog[i].hr_notes <= 500
    /\ revLast.ev = "confirmInvalid" =>
          /\ \E m \in modals : m.a = revLast.a
          /\ PostsOf(revLast.a) = 0
          /\ \A p \in postReqs : p.a # revLast.a

\* C2 witness: a confirm with an invalid form has just been rejected.
C2_Witness == revLast.ev = "confirmInvalid" /\ modals # {}

\* C3 (as claimed): at most one review is in DetailLoading (detail GET in
\* flight), AwaitingVerdict (dialog open) or Submitting (POST in flight).
C3_SingleActiveWorkflow ==
    Cardinality(detailReqs) + Cardinality(modals) + Cardinality(postReqs) <= 1

C5_FilterChangeResetsPage ==
    dashLast.op = "filter" => pageIndex = 0 /\ dashLast.req.page = 1

\* C5 witness: onFilterChange has run from a page other than the first.
C5_Witness == dashLast.op = "filter" /\ dashLast.prevIndex = 3

\* C6 (as claimed): the request issued by a page event that changes the
\* page size carries page=1.
C6_PageSizeChangeResetsPage ==
    (dashLast.op = "page" /\ pageSize # dashLast.prevSize) =>
        dashLast.req.page = 1

C8_FailureEndsAttempt == \A v \in verdicts : v.hist # "err"

\* C9 (as claimed): every failed POST is followed by a GET /reviews/pending,
\* as every successful one is.
C9_FailedSubmitRefreshes ==
    getsIssued >= InitialLoads + Cardinality(PostsResolved)

\* C10: every history fetch is issued by an attempt whose detail fetch has
\* succeeded, and asks for prediction.daily_log_id of the detail response,
\* which is not the daily_log_id of the pending-list entry.
C10_HistoryUsesDetailLogId ==
    \A h \in histLog :
        /\ outcome[h.a].detail = "ok"
        /\ h.log_id = 40 + h.element.id
        /\ h.log_id # h.element.daily_log_id

\* C10 witness: a history fetch has been issued.
C10_Witness == histLog # {}

\* C11 (as claimed): a verdict is confirmed and submitted only by an attempt
\* whose history fetch has succeeded, never while that fetch is still in
\* flight or after it failed.
C11_VerdictAfterHistoryLoaded == \A v \in verdicts : v.hist = "ok"

\* C12: a step that closes a review dialog without a verdict issues no POST
\* and no GET, leaves the published pending list, its paging state and the
\* backend's pending set as they were, and leaves the attempt with no
\* dialog, no detail fetch and no POST of its own; once no dialog is open,
\* reviewPrediction can be called again on a row of the displayed page.
C12_CancelNoSideEffects ==
    /\ [][(revLast'.ev = "cancel" /\ modals' # modals) =>
            /\ postReqs' = postReqs
            /\ postLog' = postLog
            /\ pendReqs' = pendReqs
            /\ getsIssued' = getsIssued
            /\ dataSource' = dataSource
            /\ revPageIndex' = revPageIndex
            /\ revPageLength' = revPageLength
            /\ revIsLoading' = revIsLoading
            /\ serverPending' = serverPending
            /\ \A m \in modals' : m.a # revLast'.a
            /\ \A d \in detailReqs' : d.a # revLast'.a
            /\ \A p \in postReqs' : p.a # revLast'.a]_vars
    /\ [](revLast.ev = "cancel" /\ modals = {} =>
            /\ PostsOf(revLast.a) = 0
            /\ \E id \in ReviewIds : ENABLED ReviewPrediction(id, revClicks + 1))

\* C12 witness: a review dialog has been cancelled; no POST was ever issued.
C12_Witness == revLast.ev = "cancel" /\ modals = {} /\ postLog = <<>>

\* C13: the callback of a failed GET /dashboard leaves dashboardData,
\* totalItems and isLoaded as they were, and the callback of a failed GET
\* /reviews/pending leaves the published list and its paginator as they
\* were; the published total is always the total of the published response
\* and the paginator's length the length of the published list.
C13_FailedFetchKeepsPage ==
    /\ [][(dashResp' = "error" /\ dashReqs' # dashReqs /\ dashReqs' \subseteq dashReqs) =>
            /\ dashboardData' = dashboardData
            /\ totalItems' = totalItems
            /\ isLoaded' = isLoaded]_vars
    /\ [][(revLast'.ev = "pendingError" /\ pendReqs' # pendReqs /\
              pendReqs' \subseteq pendReqs) =>
            /\ dataSource' = dataSource
            /\ revPageLength' = revPageLength
            /\ revPageIndex' = revPageIndex]_vars
    /\ [](isLoaded => totalItems = dashboardData.total)
    /\ [](revPageLength = Cardinality(dataSource))

\* C13 witness: a dashboard fetch has failed after a page with items had
\* been loaded.
C13_Witness == dashResp = "error" /\ isLoaded /\ totalItems > 0

\* C14: every request is issued by a trigger and none by an error callback:
\* the dashboard has issued one GET /dashboard for ngOnInit and one per user
\* operation; the review queue has issued one GET /reviews/pending for
\* ngOnInit and one per successful submission, one detail GET per
\* reviewPrediction call, one history GET per dialog opened and one POST per
\* verdict confirmed; and a step that delivers a failure issues no request.
C14_NoAutomaticRetry ==
    /\ [](dashSeq = (IF dashInited THEN 1 ELSE 0) + dashOps)
    /\ [](getsIssued = InitialLoads + Cardinality(PostsSucceeded))
    /\ [](Cardinality({a \in Attempts : outcome[a].detail # "none"}) = revClicks)
    /\ [](Cardinality(histLog) =
              Cardinality({a \in Attempts : outcome[a].detail = "ok"}))
    /\ [](Len(postLog) = Cardinality(verdicts))
    /\ [][(dashResp' = "error" /\ dashReqs' # dashReqs /\ dashReqs' \subseteq dashReqs) =>
              dashSeq' = dashSeq /\ dashReqs' \subseteq dashReqs]_vars
    /\ [][((\E a \in Attempts, f \in {"detail", "hist", "post"} :
                outcome'[a][f] = "err" /\ outcome[a][f] # "err")
           \/ (revLast'.ev = "pendingError" /\ pendReqs' # pendReqs /\
              pendReqs' \subseteq pendReqs)) =>
              /\ getsIssued' = getsIssued
              /\ pendReqs' \subseteq pendReqs
              /\ detailReqs' \subseteq detailReqs
              /\ postReqs' \subseteq postReqs
              /\ postLog' = postLog
              /\ histLog' = histLog]_vars

\* C14 witness: a submission has failed and no request is in flight.
C14_Witness ==
    /\ \E a \in Attempts : outcome[a].post = "err"
    /\ pendReqs = {} /\ detailReqs = {} /\ postReqs = {}

\* C15: isLoaded is false exactly as long as no response of GET /dashboard
\* has been applied, whatever number of fetches have failed, and true from
\* the first response applied on, also when that response has no items.
C15_LoadedDistinctFromEmpty ==
    /\ isLoaded <=> dashMaxApplied > 0
    /\ dashResp = "none" => ~isLoaded
    /\ dashResp = "next" => isLoaded

\* C15 witness: a response with zero items has been applied.
C15_Witness == isLoaded /\ dashResp = "next" /\ totalItems = 0

\* C16: the request issued by the last operation carries page = pageIndex + 1
\* and page_size = pageSize of the query state, that state being the one the
\* handler set before issuing (the event's page and size for a page event,
\* page index 0 for a filter change or clearFilters, the initial state for
\* ngOnInit); the paginator shows the same 0-based index as the query state.
C16_PageTranslatedAtRequest ==
    /\ dashLast.op # "none" =>
          /\ dashLast.req.page = pageIndex + 1
          /\ dashLast.req.page_size = pageSize
    /\ dashLast.op = "init" => pageIndex = dashLast.prevIndex
    /\ dashLast.op \in {"filter", "clear"} => pageIndex = 0
    /\ pageIndex = paginatorPageIndex
    /\ \A r \in dashReqs : r.q.page >= 1

\* C16 witness: a page event has moved the query state to page index 3 and
\* the request carries page = 4.
C16_Witness ==
    dashLast.op = "page" /\ pageIndex = 3 /\ dashLast.req.page = 4

\* C17: in the request issued by the last operation a filter parameter is
\* present if and only if the filter of the query state is neither null
\* nor the empty string, and no request in flight carries an empty filter.
C17_FilterSentIffPresent ==
    /\ dashLast.op # "none" =>
          /\ dashLast.req.department # Absent <=>
                (filterDepartment # NULL /\ filterDepartment # "")
          /\ dashLast.req.status # Absent <=>
                (filterStatus # NULL /\ filterStatus # "")
          /\ dashLast.req.trend # Absent <=>
                (filterTrend # NULL /\ filterTrend # "")
    /\ \A r \in dashReqs :
          r.q.department # "" /\ r.q.status # "" /\ r.q.trend # ""

\* C17 witness: a filter change has set the status filter to the empty
\* string while the department filter is set.
C17_Witness ==
    /\ dashLast.op = "filter"
    /\ filterStatus = ""
    /\ filterDepartment = "R&D"
    /\ dashLast.req.department = "R%26D"

\* The spellings of the known statuses among the raw values.
CriticalSpellings == {Str(<<"C", "R", "I", "T", "I", "C", "A", "L">>),
                      Str(<<"C", "r", "i", "t", "i", "c", "a", "l">>)}
HighSpellings == {Str(<<"H", "I", "G", "H">>), Str(<<"H", "i", "g", "h">>)}
MediumSpellings == {Str(<<"M", "E", "D", "I", "U", "M">>),
                    Str(<<"m", "e", "d", "i", "u", "m">>)}

KnownStatusClasses ==
    {"status-critical", "status-high", "status-medium", "status-low"}

\* The class the claim assigns to a raw status.
ClaimedStatusClass(raw) ==
    CASE raw \in CriticalSpellings -> "status-critical"
      [] raw \in HighSpellings     -> "status-high"
      [] raw \in MediumSpellings   -> "status-medium"
      [] OTHER                     -> "status-low"

\* C18 (as claimed): the class the prediction table computes and the class
\* the pending-review table computes for a raw status are both one of the
\* four known classes, the low class for every value that is not a spelling
\* of CRITICAL, HIGH or MEDIUM.
C18_StatusClassFailSafe ==
    /\ tableDataSource # <<>> =>
          /\ tableDataSource[1].statusClass \in KnownStatusClasses
          /\ tableDataSource[1].statusClass = ClaimedStatusClass(rawItem.status)
    /\ queueStatusClass # NotRendered =>
          /\ queueStatusClass \in KnownStatusClasses
          /\ queueStatusClass = ClaimedStatusClass(rawItem.status)

\* The spellings of 'increasing' and 'decreasing' among the raw values.
IncreasingSpellings ==
    {Str(<<"i", "n", "c", "r", "e", "a", "s", "i", "n", "g">>),
     Str(<<"I", "N", "C", "R", "E", "A", "S", "I", "N", "G">>),
     Str(<<"I", "n", "c", "r", "e", "a", "s", "i", "n", "g">>)}
DecreasingSpellings ==
    {Str(<<"d", "e", "c", "r", "e", "a", "s", "i", "n", "g">>),
     Str(<<"D", "e", "c", "r", "e", "a", "s", "i", "n", "g">>)}

\* C19: the icon the prediction table computes for a raw trend is one of
\* up, down, flat: up for 'increasing' and down for 'decreasing' in any
\* letter case, flat for 'stable', the empty string, any other string, null
\* and a missing trend.
C19_TrendIconTotal ==
    tableDataSource # <<>> =>
        /\ tableDataSource[1].trendIcon \in
              {"trending_up", "trending_down", "trending_flat"}
        /\ rawItem.trend \in IncreasingSpellings =>
              tableDataSource[1].trendIcon = "trending_up"
        /\ rawItem.trend \in DecreasingSpellings =>
              tableDataSource[1].trendIcon = "trending_down"
        /\ rawItem.trend \notin (IncreasingSpellings \cup DecreasingSpellings) =>
              tableDataSource[1].trendIcon = "trending_flat"

\* C19 witness: the table has mapped a record whose trend is 'INCREASING'.
C19_Witness ==
    /\ tableDataSource # <<>>
    /\ rawItem.trend = Str(<<"I", "N", "C", "R", "E", "A", "S", "I", "N", "G">>)
    /\ tableDataSource[1].trendIcon = "trending_up"

\* C20 (as claimed): the feedback state of a mapped record is 'confirmed'
\* or 'rejected' according to the verdict stored with the record, and
\* 'buttons' (unreviewed) for a record without a verdict.
C20_FeedbackStatePerVerdict ==
    tableDataSource # <<>> =>
        /\ tableDataSource[1].feedbackType \in {"buttons", "confirmed", "rejected"}
        /\ rawItem.verdict = "confirmed" =>
              tableDataSource[1].feedbackType = "confirmed"
        /\ rawItem.verdict = "rejected" =>
              tableDataSource[1].feedbackType = "rejected"
        /\ rawItem.verdict = "none" =>
              tableDataSource[1].feedbackType = "buttons"

\* C21: the step that applies a response of GET /dashboard publishes exactly
\* that response and its total, and the step that applies a response of GET
\* /reviews/pending publishes exactly the list of that response, the
\* paginator's length being its length: nothing of what was published
\* before is kept.
C21_ReplacedWholesale ==
    /\ [][(dashResp' = "next" /\ dashReqs' # dashReqs /\ dashReqs' \subseteq dashReqs) =>
            \E r \in dashReqs \ dashReqs' :
                /\ dashboardData' = [query |-> r.q, total |-> DashTotal(r.q)]
                /\ totalItems' = DashTotal(r.q)]_vars
    /\ [][(revApplied' # revApplied) =>
            \E r \in pendReqs \ pendReqs' :
                /\ r.n = revApplied'.n
                /\ dataSource' = r.snap
                /\ revPageLength' = Cardinality(r.snap)]_vars

\* C21 witness: a refreshed pending list shorter than the list shown before
\* has been applied.
C21_Witness ==
    /\ revApplied.n >= 2
    /\ Cardinality(dataSource) < NumReviews
    /\ dataSource = serverPending

\* C23: whenever no GET /dashboard is in flight and a response has been
\* applied, the data published is the response to the request built from the
\* current pageIndex, pageSize and filters.
C23_QuiescentConsistency ==
    (dashReqs = {} /\ isLoaded) =>
        dashboardData = DashResponse(BuildParams(pageIndex, pageSize,
                            filterDepartment, filterStatus, filterTrend))

\* C25: after clearFilters the three filters are null and pageIndex is 0, and
\* the step has issued exactly one request, of page 1, of the page size in
\* force before, with no filter parameter.
C25_ClearFiltersRequest ==
    /\ [](dashLast.op = "clear" =>
            /\ filterDepartment = NULL /\ filterStatus = NULL /\ filterTrend = NULL
            /\ pageIndex = 0
            /\ pageSize = dashLast.prevSize
            /\ dashLast.req = [page |-> 1, page_size |-> dashLast.prevSize,
                               department |-> Absent, status |-> Absent,
                               trend |-> Absent])
    /\ [][(dashOps' # dashOps /\ dashLast'.op = "clear") =>
            /\ dashSeq' = dashSeq + 1
            /\ \E r \in dashReqs' : /\ r.n = dashSeq' /\ r.q = dashLast'.req
                                    /\ dashReqs' = dashReqs \cup {r}]_vars

\* C25 witness: filters are cleared while the response to a request filtered
\* by department is the one displayed.
C25_Witness ==
    /\ dashLast.op = "clear"
    /\ isLoaded
    /\ dashboardData.query.department # Absent
    /\ filterDepartment = NULL

\* C24: every POST /reviews/{id}/submit sent carries the id of the review
\* that was passed to the reviewPrediction call of its attempt, and the
\* is_correct and hr_notes of the verdict confirmed in the dialog of that
\* attempt, whatever refreshes and other selections happened meanwhile.
C24_PostMatchesSelection ==
    \A i \in 1 .. Len(postLog) :
        /\ \E h \in histLog : h.a = postLog[i].a /\ h.element.id = postLog[i].id
        /\ \E v \in verdicts :
              /\ v.a = postLog[i].a
              /\ v.id = postLog[i].id
              /\ v.result.is_correct = postLog[i].is_correct
              /\ v.result.hr_notes = postLog[i].hr_notes

\* C24 witness: two reviews were selected one after the other and the verdict
\* of the second was posted before the verdict of the first.
C24_Witness ==
    /\ Len(postLog) = 2
    /\ postLog[1].a = 2 /\ postLog[2].a = 1
    /\ postLog[1].id # postLog[2].id
    /\ postLog[1].is_correct # postLog[2].is_correct

\* C29: the step in which GET /reviews/{id} fails opens no dialog, sends no
\* history GET, no POST and no GET /reviews/pending, and leaves the pending
\* list, its paging and isLoading as they were; and the attempt never gets a
\* dialog, a history fetch or a POST afterwards.
C29_FailedDetailNoEffect ==
    /\ [][(\E a \in Attempts : outcome'[a].detail = "err" /\ outcome[a].detail # "err") =>
            /\ modals' = modals
            /\ histLog' = histLog
            /\ postLog' = postLog /\ postReqs' = postReqs
            /\ pendReqs' = pendReqs /\ getsIssued' = getsIssued
            /\ dataSource' = dataSource
            /\ revPageIndex' = revPageIndex /\ revPageLength' = revPageLength
            /\ revIsLoading' = revIsLoading]_vars
    /\ [](\A a \in Attempts : outcome[a].detail = "err" =>
            /\ \A m \in modals : m.a # a
            /\ \A h \in histLog : h.a # a
            /\ PostsOf(a) = 0
            /\ outcome[a].hist = "none" /\ outcome[a].post = "none")

\* C29 witness: the detail fetch of an attempt has failed.
C29_Witness ==
    \E a \in Attempts : outcome[a].detail = "err" /\ detailReqs = {}

\* C26: once the review queue is initialised, isLoading is true exactly in
\* the states in which a GET /reviews/pending is in flight.
C26_LoadingWhileFetching ==
    revInited => (revIsLoading <=> pendReqs # {})

\* C22: in the employee daily-log view, once every log request has been
\* answered successfully, the logs displayed and totalLogs are those of the
\* response to the request issued last.
C22_LatestLogQueryApplied ==
    (logReqs = {} /\ logSeq > 0 /\ ~logFailed) =>
        /\ logData = LogResponse(logLastReq).items
        /\ totalLogs = LogResponse(logLastReq).total

\* C27: in the batch log-entry page isLoading is true exactly in the states
\* in which a generate-random or a train request is in flight.
C27_LoadingWhileBusy == entryIsLoading <=> entryReqs # {}

\* C28: every log request is issued for the employee selected at that moment,
\* none is issued while no employee is selected, and the request issued by
\* onEmployeeSelect carries the id of the employee just selected and page=1
\* whatever page the paginator was on.
C28_SelectLoadsFirstPage ==
    /\ [](\A r \in logReqs : EmployeeSelected(r.q.emp))
    /\ [][logSeq' # logSeq =>
            /\ EmployeeSelected(selectedEmployeeId')
            /\ \E r \in logReqs' \ logReqs : r.q.emp = selectedEmployeeId']_vars
    /\ [][(logOps' # logOps /\ ~EmployeeSelected(selectedEmployeeId')) =>
            (logSeq' = logSeq /\ logReqs' = logReqs)]_vars
    /\ []((logLast.op = "select" /\ logLast.issued) =>
            /\ logLast.req.emp = selectedEmployeeId
            /\ logLast.req.page = 1)

\* C28 witness: an employee is selected while the paginator is on a later
\* page, and the request is issued.
C28_Witness ==
    /\ logLast.op = "select"
    /\ logLast.issued
    /\ logLast.prevIndex > 0

====
